---------------------------- MODULE Spec2Model ----------------------------
(***************************************************************************)
(* A model of src/transformer.py: the construction of the modules and the  *)
(* forward pass of PositionalEncoding, ScaledDotProductAttention,          *)
(* MultiHeadAttention, LayerNorm, FeedForward, EncoderLayer, Encoder,      *)
(* DecoderLayer, Decoder and Transformer.                                  *)
(*                                                                         *)
(* Tensors.  A tensor is a record [ok, shape, data]: shape is the tuple of *)
(* its dimensions and data its elements in row-major (contiguous) order,    *)
(* which is the order torch's view() reinterprets.  Indices are 0-based as *)
(* in the source; data is a 1-based sequence.  ok = FALSE is the raised    *)
(* exception of an operation whose shapes do not fit.                      *)
(*                                                                         *)
(* Values.  The reals of the program are not computed numerically.  An     *)
(* element is a bag of atoms.  An atom names one real the program reads:   *)
(*   <<"emb", stream, "", id, f>>    entry [id, f] of an nn.Embedding      *)
(*   <<"pe", "sin"|"cos", "", pos, i>>  an entry of the positional table   *)
(*   <<"w", owner, part, layer, g>>  row g (weights, bias) of a parameter  *)
(*   <<"in", name, "", p, f>>        an element of a caller-given tensor   *)
(*   <<"huge", name, "", p, f>>      the same, of any size                 *)
(*   <<"const", name, "", k, 0>>     a literal of the source or of a       *)
(*                                   caller-given tensor (k: its parameter)*)
(*   <<"mask", owner, part, draw, n>>  entry n of a mask nn.Dropout drew   *)
(* The parameters are those torch initialises and the "in" elements are of *)
(* ordinary size: every score computed from them is far above -1e10.  A    *)
(* caller-given element that may be as far from 0 as -1e10 is a "huge"     *)
(* atom.                                                                   *)
(* Additions (x + y) are exact: the bag is the formal sum of its atoms     *)
(* with multiplicity, and EmptyBag is the number 0.  Every other operation *)
(* (nn.Linear, matmul, softmax, LayerNorm, ReLU) yields the set of atoms   *)
(* its result is computed from, as a bag of multiplicity 1.                *)
(*                                                                         *)
(* Dropout.  A module is built in training mode (nn.Module's default) and  *)
(* the source never calls eval(), so an nn.Dropout(p) with p > 0 zeroes    *)
(* the elements its random mask picks and scales the others by             *)
(* 1 / (1 - p).                                                            *)
(* A mask is not enumerated: like a weight, each of its entries is an atom, *)
(* a real (0 or 1) the program reads, here from torch's random generator,   *)
(* and an element that went through dropout is computed from its mask      *)
(* entry, whatever the entry is.  Every mask of that shape is covered.     *)
(* The masks are numbered in the order the generator draws them: rng is    *)
(* the number of masks drawn so far, so that two calls, or two modules of  *)
(* one call, never read the same mask.                                     *)
(* Rates are written in percent (10 is dropout_rate = 0.1).                *)
(***************************************************************************)
EXTENDS Integers, Sequences, FiniteSets, Bags, TLC

VARIABLES
  mha,          \* the last MultiHeadAttention(head, embedding_dim, ..) built
  model,        \* the last Transformer(..) built
  att,          \* MultiHeadAttention.forward: the locals of one call
  att_pc,       \* MultiHeadAttention.forward: the position in the call
  cfg,          \* Transformer.forward: the model's configuration
  inp,          \* Transformer.forward: x, x_mask, target, target_mask
  pc,           \* Transformer.forward: the position in the call
  layer,        \* the loop variable _ of Encoder.forward / Decoder.forward
  embedding_out,\* self.embedding(x) of the running Encoder / Decoder
  out,          \* the local out of the running Encoder / Decoder
  encoder_out,  \* Transformer.forward's encoder_out
  logits,       \* Transformer.forward's return value
  rng,          \* torch's random generator: the number of dropout masks drawn
  calls         \* the calls made so far, in order

vars == <<mha, model, att, att_pc, cfg, inp, pc, layer,
          embedding_out, out, encoder_out, logits, rng, calls>>

(***************************************************************************)
(* Bounds of the model.                                                    *)
(***************************************************************************)
MaxDim == 4       \* construction: embedding_dim ranges over -1..MaxDim
MaxHeadArg == 3   \* construction: head ranges over -1..MaxHeadArg
MaxCtorN == 2     \* construction: N ranges over -1..MaxCtorN
MaxCtorLen == 2   \* construction: max_len ranges over -1..MaxCtorLen
MaxLayers == 2    \* forward: N ranges over 1..MaxLayers
MaxLen == 3       \* forward: max_len ranges over 1..MaxLen
MaxSeq == 2       \* forward: the source and target lengths range over 1..MaxSeq
MaxAttnLen == 2   \* attention call: the sequence length ranges over 1..MaxAttnLen
MaxBatch == 2     \* attention call: the batch size ranges over 1..MaxBatch
MaxMaskBits == 8   \* attention call: a (batch, len, len) mask has at most so many entries
MaxDirectMaskBits == 4  \* direct attention call: a mask has at most so many entries
MaxRng == 1       \* a call starts with 0..MaxRng masks drawn before it

\* forward and attention call: the (head, embedding_dim) pairs the model is
\* built with.  embedding_dim >= 2: LayerNorm's x.std() of a single feature is
\* NaN.  (2, 3) is a pair with embedding_dim % head # 0.
HeadDims == {<<1, 2>>, <<2, 2>>, <<2, 4>>, <<2, 3>>}

\* forward and attention call: the dropout rates, in percent (0.0 and the 0.1
\* of main()).
DropoutRates == {0, 10}

\* construction: the dropout rates, in percent (-0.1, 0.0, 0.1, 1.1).
CtorDropoutRates == {-10, 0, 10, 110}

\* FeedForward's self.inner_dim.
InnerDim == 2048

\* Token ids: a token and the padding id of main().
PadId == 1
Vocab == {0, PadId}

(***************************************************************************)
(* Tensors.                                                                *)
(***************************************************************************)
\* The exception a tensor operation raises.
Err == [ok |-> FALSE, shape |-> <<>>, data |-> <<>>]

\* Python's None where a tensor may stand (mask=None, a local not yet bound).
None == [ok |-> FALSE, shape |-> <<0>>, data |-> <<>>]
IsNone(t) == t.shape = <<0>>

RECURSIVE Numel(_)
Numel(shape) == IF shape = <<>> THEN 1 ELSE Head(shape) * Numel(Tail(shape))

\* A tensor of the given shape and elements (data as an explicit sequence).
Mk(shape, data) == [ok |-> TRUE, shape |-> shape, data |-> <<>> \o data]

\* The 0-based index tuple of the n-th element (1-based) in row-major order.
Ix2(shape, n) == <<(n - 1) \div shape[2], (n - 1) % shape[2]>>
Ix3(shape, n) ==
  <<(n - 1) \div (shape[2] * shape[3]), ((n - 1) \div shape[3]) % shape[2],
    (n - 1) % shape[3]>>
Ix4(shape, n) ==
  <<(n - 1) \div (shape[2] * shape[3] * shape[4]),
    ((n - 1) \div (shape[3] * shape[4])) % shape[2],
    ((n - 1) \div shape[4]) % shape[3], (n - 1) % shape[4]>>

At2(T, a, b) == T.data[a * T.shape[2] + b + 1]
At3(T, a, b, c) == T.data[(a * T.shape[2] + b) * T.shape[3] + c + 1]
At4(T, a, b, c, d) ==
  T.data[((a * T.shape[2] + b) * T.shape[3] + c) * T.shape[4] + d + 1]

\* Tensor.view(shape): the same contiguous data under another shape.
View(T, shape) ==
  IF T.ok /\ (\A d \in 1..Len(shape) : shape[d] >= 0) /\ Numel(shape) = Numel(T.shape)
  THEN Mk(shape, T.data)
  ELSE Err

\* Tensor.transpose(1, 2) of a 4-dimensional tensor.
Transpose12(T) ==
  IF ~T.ok THEN Err
  ELSE LET s == <<T.shape[1], T.shape[3], T.shape[2], T.shape[4]>>
       IN Mk(s, [n \in 1..Numel(s) |->
                   LET i == Ix4(s, n) IN At4(T, i[1], i[3], i[2], i[4])])

\* Tensor.unsqueeze(1) of a 3-dimensional tensor.
Unsqueeze1(T) ==
  IF ~T.ok THEN Err
  ELSE Mk(<<T.shape[1], 1, T.shape[2], T.shape[3]>>, T.data)

\* torch's broadcasting rule on one dimension.
BroadcastOk(m, n) == m = n \/ m = 1 \/ n = 1
BroadcastDim(m, n) == IF m = 1 THEN n ELSE m
BroadcastIdx(m, i) == IF m = 1 THEN 0 ELSE i

\* x + y of two 3-dimensional tensors (exact: the formal sum).
Add3(X, Y) ==
  IF ~X.ok \/ ~Y.ok THEN Err
  ELSE IF \A d \in 1..3 : BroadcastOk(X.shape[d], Y.shape[d])
  THEN LET s == [d \in 1..3 |-> BroadcastDim(X.shape[d], Y.shape[d])]
       IN Mk(s, [n \in 1..Numel(s) |->
                   LET i == Ix3(s, n)
                   IN At3(X, BroadcastIdx(X.shape[1], i[1]),
                             BroadcastIdx(X.shape[2], i[2]),
                             BroadcastIdx(X.shape[3], i[3]))
                      (+) At3(Y, BroadcastIdx(Y.shape[1], i[1]),
                                 BroadcastIdx(Y.shape[2], i[2]),
                                 BroadcastIdx(Y.shape[3], i[3]))])
  ELSE Err

\* The atoms an element is computed from.
Supp(v) == BagToSet(v)

\* The size of the last axis, and the number of rows along it.
LastDim(T) == T.shape[Len(T.shape)]
NumRows(T) == Numel(SubSeq(T.shape, 1, Len(T.shape) - 1))

\* For each row along the last axis (in row-major order, 1-based), the atoms
\* the row is computed from.
RowSupps(T) ==
  <<>> \o [r \in 1..NumRows(T) |->
             UNION {Supp(T.data[(r - 1) * LastDim(T) + c]) : c \in 1..LastDim(T)}]

FloorDiv(a, b) == IF b > 0 THEN a \div b ELSE (0 - a) \div (0 - b)

(***************************************************************************)
(* nn.Dropout.                                                             *)
(***************************************************************************)
\* nn.Dropout.__init__ raises ValueError unless 0 <= p <= 1.
DropoutInit(p) == p >= 0 /\ p <= 100

\* The factor 1 / (1 - p) of the elements the mask keeps.
Scale == <<"const", "1/(1-p)", "", 0, 0>>

\* Entry n (0-based, row-major) of the draw-th mask the generator draws,
\* drawn by the nn.Dropout part of owner: 0 with probability p, else 1.
Mask(owner, part, draw, n) == <<"mask", owner, part, draw, n>>

\* A dropout of rate p draws a mask: in training mode, for 0 < p < 1.
Active(p, training) == training /\ p > 0 /\ p < 100

\* nn.Dropout(p).forward(X), the mask being the draw-th of the generator:
\* X * mask / (1 - p).  Outside training mode, and for p = 0, X is returned
\* as it is; for p = 1 the result is 0 everywhere; 0 stays 0.
Dropout(X, p, training, draw, owner, part) ==
  IF ~X.ok THEN Err
  ELSE IF ~training \/ p <= 0 THEN X
  ELSE IF p >= 100 THEN Mk(X.shape, [n \in 1..Numel(X.shape) |-> EmptyBag])
  ELSE Mk(X.shape, [n \in 1..Numel(X.shape) |->
                      IF X.data[n] = EmptyBag THEN EmptyBag
                      ELSE SetToBag(Supp(X.data[n])
                                    \cup {Scale, Mask(owner, part, draw, n - 1)})])

(***************************************************************************)
(* PositionalEncoding.                                                     *)
(***************************************************************************)
\* __init__: the table self.positionalEncoding, torch.zeros((max_len,
\* embedding_dim)) with the columns 2i and 2i+1 filled for i < embedding_dim // 2.
\* torch.zeros raises on a negative dimension.
PositionalEncodingInit(max_len, embedding_dim) ==
  IF max_len < 0 \/ embedding_dim < 0 THEN Err
  ELSE LET s == <<max_len, embedding_dim>>
       IN Mk(s, [n \in 1..Numel(s) |->
                   LET pos == Ix2(s, n)[1]
                       f == Ix2(s, n)[2]
                   IN IF f \div 2 < embedding_dim \div 2
                      THEN SetToBag({<<"pe", IF f % 2 = 0 THEN "sin" ELSE "cos",
                                       "", pos, f \div 2>>})
                      ELSE EmptyBag])

\* forward: out = x + self.positionalEncoding, the whole (max_len, embedding_dim)
\* table broadcast against x of shape (batch, seq_len, embedding_dim).
PositionalEncodingForward(table, x) ==
  IF ~table.ok THEN Err
  ELSE Add3(x, Mk(<<1, table.shape[1], table.shape[2]>>, table.data))

(***************************************************************************)
(* nn.Linear, LayerNorm, FeedForward.                                      *)
(***************************************************************************)
\* nn.Linear(in_dim, out_dim) applied to the last axis: element g of a row is
\* computed from the whole input row and from row g of the weight and bias.
Linear(X, in_dim, out_dim, owner, part, lyr) ==
  IF ~X.ok \/ X.shape[3] # in_dim THEN Err
  ELSE LET s == <<X.shape[1], X.shape[2], out_dim>>
           rows == RowSupps(X)
       IN Mk(s, [n \in 1..Numel(s) |->
                   SetToBag(rows[(n - 1) \div out_dim + 1]
                            \cup {<<"w", owner, part, lyr, (n - 1) % out_dim>>})])

\* LayerNorm.forward: mean and std over the last axis, then gamma and beta.
LayerNorm(X, owner, part, lyr) ==
  IF ~X.ok THEN Err
  ELSE LET rows == RowSupps(X)
       IN Mk(X.shape, [n \in 1..Numel(X.shape) |->
                         SetToBag(rows[(n - 1) \div LastDim(X) + 1]
                                  \cup {<<"w", owner, part, lyr, (n - 1) % LastDim(X)>>})])

\* FeedForward.__init__: nn.Linear raises for a negative size, nn.Dropout for
\* a rate outside [0, 1].
FeedForwardInit(embedding_dim, dropout) == embedding_dim >= 0 /\ DropoutInit(dropout)

\* FeedForward.forward: self.dense, Linear -> ReLU -> Dropout -> Linear, position
\* by position.  The atom of part "dense.0" stands for the whole first Linear
\* (every one of its inner_dim rows reaches every output element), and the
\* mask atom of a position for the inner_dim mask entries of that position.
\* out is the result, drawn the number of masks the call has drawn.
FeedForward(X, embedding_dim, dropout, training, draw, owner, lyr) ==
  IF ~X.ok \/ X.shape[3] # embedding_dim THEN [out |-> Err, drawn |-> 0]
  ELSE LET rows == RowSupps(X)
           hidden == <<>> \o [r \in 1..NumRows(X) |->
                                IF ~training \/ dropout <= 0
                                THEN rows[r] \cup {<<"w", owner, "feed_forward.dense.0", lyr, 0>>}
                                ELSE IF dropout >= 100 THEN {}
                                ELSE rows[r]
                                     \cup {<<"w", owner, "feed_forward.dense.0", lyr, 0>>,
                                           Scale,
                                           Mask(owner, "feed_forward.dense.2", draw, r - 1)}]
       IN [out |-> Mk(X.shape,
                      [n \in 1..Numel(X.shape) |->
                         SetToBag(hidden[(n - 1) \div LastDim(X) + 1]
                                  \cup {<<"w", owner, "feed_forward.dense.3", lyr,
                                          (n - 1) % LastDim(X)>>})]),
           drawn |-> IF Active(dropout, training) THEN 1 ELSE 0]

(***************************************************************************)
(* ScaledDotProductAttention.forward, statement by statement.              *)
(***************************************************************************)
\* The literal -1e10 of masked_fill.
MaskFill == SetToBag({<<"const", "-1e10", "", 0, 0>>})

\* The weight 1 / seq_len softmax gives every entry of a row of equal scores.
Uniform == SetToBag({<<"const", "uniform", "", 0, 0>>})

\* The literal 1.0 in a caller-given tensor: x * 1.0 is x.
One == <<"const", "1", "", 0, 0>>

\* What a division by 0.0 leaves: nan for 0 / 0.0, inf or -inf otherwise.
NonFinite == <<"const", "nan", "", 0, 0>>

\* The row (1-based) of a 4-dimensional tensor T along its last axis that a
\* matmul reads for the batch element b and the head h of its result, the
\* first two axes of T being broadcast, at the position p of the third.
MatmulRow(T, b, h, p) ==
  (BroadcastIdx(T.shape[1], b) * T.shape[2] + BroadcastIdx(T.shape[2], h)) * T.shape[3]
  + p + 1

\* The atoms a dot product of length d is computed from, qrow and krow being
\* the atoms of the two rows.  A dot product of length 1 is one product, and
\* a product by the literal 1.0 is the other factor.
Dot(qrow, krow, d) ==
  IF d = 1 /\ krow = {One} THEN qrow
  ELSE IF d = 1 /\ qrow = {One} THEN krow
  ELSE qrow \cup krow

\* out /= math.sqrt(self.dk) on one element computed from the atoms S: the
\* division by sqrt(1) = 1.0 leaves the element as it is, the division by
\* sqrt(0) = 0.0 leaves no finite number, and 0 stays 0 otherwise.
Scaled(S, dk) ==
  IF dk = 0 THEN SetToBag(S \cup {NonFinite})
  ELSE IF dk = 1 \/ S = {} THEN SetToBag(S)
  ELSE SetToBag(S \cup {<<"const", "1/sqrt(dk)", "", dk, 0>>})

\* out = torch.matmul(query, key.transpose(2, 3)); out /= math.sqrt(self.dk)
\* query is (batch, head, len_q, d), key is (batch, head, len_k, d), dk is
\* self.dk.  torch.matmul broadcasts the batch and head axes and raises when
\* they do not broadcast or when the last axes differ; math.sqrt raises for a
\* negative number.
ScaledScores(query, key, dk) ==
  IF ~query.ok \/ ~key.ok THEN Err
  ELSE IF ~BroadcastOk(query.shape[1], key.shape[1])
          \/ ~BroadcastOk(query.shape[2], key.shape[2])
          \/ query.shape[4] # key.shape[4] THEN Err
  ELSE IF dk < 0 THEN Err
  ELSE LET s == <<BroadcastDim(query.shape[1], key.shape[1]),
                  BroadcastDim(query.shape[2], key.shape[2]),
                  query.shape[3], key.shape[3]>>
           qrows == RowSupps(query)
           krows == RowSupps(key)
       IN Mk(s, [n \in 1..Numel(s) |->
                   LET i == Ix4(s, n)
                   IN Scaled(Dot(qrows[MatmulRow(query, i[1], i[2], i[3])],
                                 krows[MatmulRow(key, i[1], i[2], i[4])],
                                 query.shape[4]),
                             dk)])

\* The shape two 4-dimensional tensors broadcast to.
Broadcast4(s, t) == [d \in 1..4 |-> BroadcastDim(s[d], t[d])]

\* Element i (0-based indices) of the 4-dimensional tensor T broadcast.
AtBroadcast4(T, i) ==
  At4(T, BroadcastIdx(T.shape[1], i[1]), BroadcastIdx(T.shape[2], i[2]),
         BroadcastIdx(T.shape[3], i[3]), BroadcastIdx(T.shape[4], i[4]))

\* MaskedFill with the test of the mask inverted (mask != 0).
MaskedFillInverted(scores, mask) ==
  IF ~scores.ok THEN Err
  ELSE IF IsNone(mask) THEN scores
  ELSE LET m == Unsqueeze1(mask)
       IN IF ~m.ok THEN Err
          ELSE IF \E d \in 1..4 : ~BroadcastOk(m.shape[d], scores.shape[d])
          THEN Err
          ELSE LET s == Broadcast4(scores.shape, m.shape)
               IN Mk(s, [n \in 1..Numel(s) |->
                           IF AtBroadcast4(m, Ix4(s, n)) # 0
                           THEN MaskFill
                           ELSE AtBroadcast4(scores, Ix4(s, n))])

\* if mask is not None: mask = mask.unsqueeze(1);
\*                      out = out.masked_fill(mask == 0, -1e10)
\* masked_fill broadcasts the scores and the mask against each other: the
\* result has the shape the two broadcast to, and the call raises when they
\* do not broadcast.
MaskedFill(scores, mask) ==
  IF ~scores.ok THEN Err
  ELSE IF IsNone(mask) THEN scores
  ELSE LET m == Unsqueeze1(mask)
       IN IF ~m.ok THEN Err
          ELSE IF \E d \in 1..4 : ~BroadcastOk(m.shape[d], scores.shape[d])
          THEN Err
          ELSE LET s == Broadcast4(scores.shape, m.shape)
               IN Mk(s, [n \in 1..Numel(s) |->
                           IF AtBroadcast4(m, Ix4(s, n)) = 0
                           THEN MaskFill
                           ELSE AtBroadcast4(scores, Ix4(s, n))])

\* An atom that may stand for a number as far from 0 as the fill constant, or
\* for no number: a caller-given element of any size, the literal -1e10, nan.
Huge(a) == a[1] = "huge" \/ a \in Supp(MaskFill) \/ a = NonFinite

\* out = self.softmax(out), over the last axis.  A row of filled entries only
\* is a row of equal scores and gets the weight 1 / len_k everywhere.  In a
\* row that holds a score that was not filled, exp(-1e10 - max) is 0.0 in
\* floating point, and a filled entry gets the weight 0, as long as the scores
\* that were not filled are of ordinary size; when one of them may be as low
\* as the fill constant, or is not finite, every weight of the row is
\* computed from every score of the row, the filled ones included.
Softmax(scores) ==
  IF ~scores.ok THEN Err
  ELSE LET len_k == LastDim(scores)
           \* per row: the atoms of its scores that were not filled
           rows == <<>> \o [r \in 1..NumRows(scores) |->
                              UNION {Supp(scores.data[(r - 1) * len_k + k]) :
                                       k \in {k \in 1..len_k :
                                                scores.data[(r - 1) * len_k + k] # MaskFill}}]
           all_filled == <<>> \o [r \in 1..NumRows(scores) |->
                                    \A k \in 1..len_k :
                                      scores.data[(r - 1) * len_k + k] = MaskFill]
           some_filled == <<>> \o [r \in 1..NumRows(scores) |->
                                     \E k \in 1..len_k :
                                       scores.data[(r - 1) * len_k + k] = MaskFill]
           extreme == <<>> \o [r \in 1..NumRows(scores) |->
                                 \E a \in rows[r] : Huge(a)]
       IN Mk(scores.shape,
             [n \in 1..Numel(scores.shape) |->
                LET r == (n - 1) \div len_k + 1
                IN IF all_filled[r] THEN Uniform
                   ELSE IF extreme[r]
                   THEN SetToBag(rows[r] \cup IF some_filled[r] THEN Supp(MaskFill)
                                              ELSE {})
                   ELSE IF scores.data[n] = MaskFill THEN EmptyBag
                   ELSE SetToBag(rows[r])])

\* if self.dropout_rate > 0.0: out = self.dropout(out)
AttentionDropout(weights, dropout_rate, training, draw, owner) ==
  Dropout(weights, dropout_rate, training, draw, owner,
          "scaled_dot_product_attention.dropout")

\* out = torch.matmul(out, value): weights (batch, head, len_q, len_k) times
\* value (batch, head, len_k, d).  torch.matmul broadcasts the batch and head
\* axes and raises when they do not broadcast or when len_k differs.  A
\* weight of 0 contributes nothing, unless the value is not finite.
WeightedSum(weights, value) ==
  IF ~weights.ok \/ ~value.ok THEN Err
  ELSE IF ~BroadcastOk(weights.shape[1], value.shape[1])
          \/ ~BroadcastOk(weights.shape[2], value.shape[2])
          \/ weights.shape[4] # value.shape[3] THEN Err
  ELSE LET s == <<BroadcastDim(weights.shape[1], value.shape[1]),
                  BroadcastDim(weights.shape[2], value.shape[2]),
                  weights.shape[3], value.shape[4]>>
       IN Mk(s, [n \in 1..Numel(s) |->
                   LET i == Ix4(s, n)
                       w == [k \in 0..(value.shape[3] - 1) |->
                               weights.data[MatmulRow(weights, i[1], i[2], i[3])
                                            * weights.shape[4] - weights.shape[4] + k + 1]]
                       v == [k \in 0..(value.shape[3] - 1) |->
                               value.data[MatmulRow(value, i[1], i[2], k)
                                          * value.shape[4] - value.shape[4] + i[4] + 1]]
                   IN SetToBag(UNION {Supp(w[k]) \cup Supp(v[k]) :
                                      k \in {k \in 0..(value.shape[3] - 1) :
                                               w[k] # EmptyBag
                                               \/ NonFinite \in Supp(v[k])}})])

\* __init__: self.dk and self.dropout_rate are stored unchecked; an nn.Dropout
\* is built, and checks its rate, only when dropout_rate > 0.  A module is
\* built in training mode.
ScaledDotProductAttentionInit(dk, dropout_rate) ==
  [ok |-> dropout_rate <= 0 \/ DropoutInit(dropout_rate),
   dk |-> dk, dropout_rate |-> dropout_rate, training |-> TRUE]

\* forward from the dropout on, weights being what the softmax returned: out
\* is the result, drawn the number of masks the call has drawn (the mask is
\* drawn once the softmax has returned).
AttentionOutput(weights, value, dropout_rate, training, draw, owner) ==
  [out |-> WeightedSum(AttentionDropout(weights, dropout_rate, training, draw, owner),
                       value),
   drawn |-> IF weights.ok /\ Active(dropout_rate, training) THEN 1 ELSE 0]

\* forward: out is the result, drawn the number of masks the call has drawn.
ScaledDotProductAttention(query, key, value, mask, dk, dropout_rate, training, draw, owner) ==
  AttentionOutput(Softmax(MaskedFill(ScaledScores(query, key, dk), mask)), value,
                  dropout_rate, training, draw, owner)

(***************************************************************************)
(* MultiHeadAttention.                                                     *)
(***************************************************************************)
\* __init__: self.dk = embedding_dim // head raises ZeroDivisionError for
\* head = 0, nn.Linear raises for a negative size, ScaledDotProductAttention
\* builds an nn.Dropout when dropout_rate > 0; nothing else is checked.  A
\* module is built in training mode.
MultiHeadAttentionInit(head, embedding_dim, dropout_rate) ==
  IF head = 0 \/ embedding_dim < 0 \/ (dropout_rate > 0 /\ ~DropoutInit(dropout_rate))
  THEN [ok |-> FALSE, head |-> head, embedding_dim |-> embedding_dim, dk |-> 0,
        dropout_rate |-> dropout_rate, training |-> TRUE]
  ELSE [ok |-> TRUE, head |-> head, embedding_dim |-> embedding_dim,
        dk |-> FloorDiv(embedding_dim, head),
        dropout_rate |-> dropout_rate, training |-> TRUE]

\* self.dense_X(t).view(batch, max_len, self.head, self.dk).transpose(1, 2),
\* batch and max_len being those of the query.
SplitHeads(m, t, query, owner, part, lyr) ==
  IF ~query.ok THEN Err
  ELSE Transpose12(View(Linear(t, m.embedding_dim, m.embedding_dim, owner, part, lyr),
                        <<query.shape[1], query.shape[2], m.head, m.dk>>))

\* .view(batch, max_len, self.embedding_dim) of the attention output, which is
\* contiguous in the order (batch, head, max_len, dk).
MergeHeads(m, heads, query) ==
  IF ~query.ok THEN Err
  ELSE View(heads, <<query.shape[1], query.shape[2], m.embedding_dim>>)

\* self.scaled_dot_product_attention(query_out, key_out, value_out, mask):
\* lines 74-80 run before the attention is called, which is not reached when
\* one of them raises.
Attention(m, query_out, key_out, value_out, mask, draw, owner) ==
  IF query_out.ok /\ key_out.ok /\ value_out.ok
  THEN ScaledDotProductAttention(query_out, key_out, value_out, mask,
                                 m.dk, m.dropout_rate, m.training, draw, owner)
  ELSE [out |-> Err, drawn |-> 0]

\* forward from the view of the attention output on, heads being what the
\* attention returned.
MultiHeadAttentionOutput(m, heads, query, owner, lyr) ==
  [out |-> Linear(MergeHeads(m, heads.out, query), m.embedding_dim, m.embedding_dim,
                  owner, "dense", lyr),
   drawn |-> heads.drawn]

\* forward: out is the result, drawn the number of masks the call has drawn.
MultiHeadAttention(m, query, key, value, mask, draw, owner, lyr) ==
  MultiHeadAttentionOutput(
    m,
    Attention(m, SplitHeads(m, query, query, owner, "dense_query", lyr),
                 SplitHeads(m, key, query, owner, "dense_key", lyr),
                 SplitHeads(m, value, query, owner, "dense_value", lyr),
                 mask, draw, owner),
    query, owner, lyr)

(***************************************************************************)
(* EncoderLayer and DecoderLayer.  c is the configuration the layer was    *)
(* built with; lyr is its index in the stack; draw is the number of masks  *)
(* the generator has drawn when the call starts.                           *)
(***************************************************************************)
\* The MultiHeadAttention of a layer of the model c, in the mode of c.
SubModule(c) ==
  [MultiHeadAttentionInit(c.head, c.embedding_dim, c.dropout_rate)
     EXCEPT !.training = c.training]

\* EncoderLayer.forward, its last two statements: feed_forward is what
\* self.feed_forward returned, drawn the number of masks drawn before it.
EncoderLayerNorm2(lyr, out1, drawn, feed_forward) ==
  [out |-> LayerNorm(Add3(feed_forward.out, out1), "encoder", "layer_norm2", lyr),
   drawn |-> drawn + feed_forward.drawn]

\* EncoderLayer.forward from self.feed_forward(out) on, out1 being the local
\* out after layer_norm1.
EncoderLayerFeedForward(c, lyr, draw, drawn, out1) ==
  EncoderLayerNorm2(lyr, out1, drawn,
                    FeedForward(out1, c.embedding_dim, c.dropout_rate, c.training,
                                draw + drawn, "encoder", lyr))

\* EncoderLayer.forward from the first residual addition on, multi_head being
\* what self.multi_head_attention returned.
EncoderLayerNorm1(c, x, lyr, draw, multi_head) ==
  EncoderLayerFeedForward(c, lyr, draw, multi_head.drawn,
                          LayerNorm(Add3(multi_head.out, x), "encoder", "layer_norm1", lyr))

\* EncoderLayer.forward: out is the result, drawn the number of masks the
\* call has drawn.
EncoderLayerLocals(c, x, x_mask, lyr, draw) ==
  EncoderLayerNorm1(c, x, lyr, draw,
                    MultiHeadAttention(SubModule(c), x, x, x, x_mask, draw,
                                       "encoder.multi_head_attention", lyr))

EncoderLayer(c, x, x_mask, lyr, draw) == EncoderLayerLocals(c, x, x_mask, lyr, draw).out

\* The arguments (query, key, value, mask) of the two attention calls of
\* DecoderLayer.forward, as the source passes them.
DecoderSelfAttentionArgs(enc_out, target, x_mask, target_mask) ==
  <<target, target, target, target_mask>>

\* out1 is the local out after layer_norm1.
DecoderCrossAttentionArgs(enc_out, out1, x_mask, target_mask) ==
  <<enc_out, enc_out, out1, x_mask>>

\* DecoderLayer.forward, its last two statements: the locals of the call and
\* the number of masks it has drawn.  a and b are the arguments of the two
\* attention calls, feed_forward is what self.feed_forward returned, drawn the
\* number of masks drawn before it.
DecoderLayerNorm3(lyr, a, out1, b, out2, drawn, feed_forward) ==
  [attention1 |-> a, out1 |-> out1, attention2 |-> b, out2 |-> out2,
   out |-> LayerNorm(Add3(feed_forward.out, out2), "decoder", "layer_norm3", lyr),
   drawn |-> drawn + feed_forward.drawn]

\* DecoderLayer.forward from self.feed_forward(out) on, out2 being the local
\* out after layer_norm2.
DecoderLayerFeedForward(c, lyr, draw, a, out1, b, drawn, out2) ==
  DecoderLayerNorm3(lyr, a, out1, b, out2, drawn,
                    FeedForward(out2, c.embedding_dim, c.dropout_rate, c.training,
                                draw + drawn, "decoder", lyr))

\* DecoderLayer.forward from the second residual addition on, multi_head2
\* being what self.multi_head_attention2 returned.
DecoderLayerNorm2(c, lyr, draw, a, out1, b, drawn, multi_head2) ==
  DecoderLayerFeedForward(c, lyr, draw, a, out1, b, drawn + multi_head2.drawn,
                          LayerNorm(Add3(multi_head2.out, out1),
                                    "decoder", "layer_norm2", lyr))

\* DecoderLayer.forward from the call of self.multi_head_attention2 on.
DecoderLayerAttention2(c, enc_out, x_mask, target_mask, lyr, draw, a, drawn, out1) ==
  LET b == DecoderCrossAttentionArgs(enc_out, out1, x_mask, target_mask)
  IN DecoderLayerNorm2(c, lyr, draw, a, out1, b, drawn,
                       MultiHeadAttention(SubModule(c), b[1], b[2], b[3], b[4],
                                          draw + drawn,
                                          "decoder.multi_head_attention2", lyr))

\* DecoderLayer.forward from the first residual addition on, multi_head1
\* being what self.multi_head_attention1 returned.
DecoderLayerNorm1(c, enc_out, target, x_mask, target_mask, lyr, draw, a, multi_head1) ==
  DecoderLayerAttention2(c, enc_out, x_mask, target_mask, lyr, draw, a,
                         multi_head1.drawn,
                         LayerNorm(Add3(multi_head1.out, target),
                                   "decoder", "layer_norm1", lyr))

\* DecoderLayer.forward: its locals, line by line, and the number of masks
\* the call has drawn.
DecoderLayerLocals(c, enc_out, target, x_mask, target_mask, lyr, draw) ==
  LET a == DecoderSelfAttentionArgs(enc_out, target, x_mask, target_mask)
  IN DecoderLayerNorm1(c, enc_out, target, x_mask, target_mask, lyr, draw, a,
                       MultiHeadAttention(SubModule(c), a[1], a[2], a[3], a[4], draw,
                                          "decoder.multi_head_attention1", lyr))

DecoderLayer(c, enc_out, target, x_mask, target_mask, lyr, draw) ==
  DecoderLayerLocals(c, enc_out, target, x_mask, target_mask, lyr, draw).out

(***************************************************************************)
(* Encoder, Decoder, Transformer.                                          *)
(***************************************************************************)
\* nn.Embedding(input_size, embedding_dim) applied to ids of shape (batch, len).
Embedding(ids, input_size, embedding_dim, stream) ==
  IF \E n \in 1..Len(ids.data) : ids.data[n] < 0 \/ ids.data[n] >= input_size
  THEN Err
  ELSE LET s == <<ids.shape[1], ids.shape[2], embedding_dim>>
       IN Mk(s, [n \in 1..Numel(s) |->
                   LET i == Ix3(s, n)
                   IN SetToBag({<<"emb", stream, "", At2(ids, i[1], i[2]), i[3]>>})])

\* embedding_out = self.embedding(x)
\* out = embedding_out + self.positionalEncoding(embedding_out)
EmbedAndEncode(c, ids, input_size, stream) ==
  LET emb == Embedding(ids, input_size, c.embedding_dim, stream)
  IN Add3(emb, PositionalEncodingForward(
                 PositionalEncodingInit(c.max_len, c.embedding_dim), emb))

\* Encoder.__init__ / Decoder.__init__: nn.Embedding, PositionalEncoding, then
\* N layers (range(N) is empty for N <= 0), each building MultiHeadAttention
\* and FeedForward.
StackInit(input_size, max_len, head, embedding_dim, dropout_rate, N) ==
  /\ input_size >= 0 /\ embedding_dim >= 0
  /\ PositionalEncodingInit(max_len, embedding_dim).ok
  /\ (N >= 1 => /\ MultiHeadAttentionInit(head, embedding_dim, dropout_rate).ok
                /\ FeedForwardInit(embedding_dim, dropout_rate))

\* Transformer.__init__: the instance, or the exception (ok = FALSE).
TransformerInit(input_size, target_size, max_len, head, embedding_dim, dropout_rate, N) ==
  [ok |-> /\ StackInit(input_size, max_len, head, embedding_dim, dropout_rate, N)
          /\ StackInit(target_size, max_len, head, embedding_dim, dropout_rate, N),
   input_size |-> input_size, target_size |-> target_size, max_len |-> max_len,
   head |-> head, embedding_dim |-> embedding_dim, dropout_rate |-> dropout_rate,
   N |-> N, training |-> TRUE]

\* The arguments of self.encoder[_](out, x_mask).
EncoderLayerArgs(x, x_mask) == <<x, x_mask>>

\* DecoderLayerArgs with the first two arguments exchanged.
DecoderLayerArgsSwapped(enc_out, x, x_mask, target_mask) ==
  <<x, enc_out, x_mask, target_mask>>

\* The arguments of self.decoder[_](encoder_out, out, x_mask, target_mask).
DecoderLayerArgs(enc_out, x, x_mask, target_mask) ==
  <<enc_out, x, x_mask, target_mask>>

\* Encoder.forward from layer lyr on: for _ in range(self.N): out = self.encoder[_](out, x_mask)
\* out is the result, draw the number of masks drawn when the loop ends.
RECURSIVE EncoderLayers(_, _, _, _, _)
EncoderLayers(c, x, x_mask, lyr, draw) ==
  IF lyr >= c.N THEN [out |-> x, draw |-> draw]
  ELSE LET a == EncoderLayerArgs(x, x_mask)
           l == EncoderLayerLocals(c, a[1], a[2], lyr, draw)
       IN EncoderLayers(c, l.out, x_mask, lyr + 1, draw + l.drawn)

\* Decoder.forward from layer lyr on.
RECURSIVE DecoderLayers(_, _, _, _, _, _, _)
DecoderLayers(c, enc_out, x, x_mask, target_mask, lyr, draw) ==
  IF lyr >= c.N THEN [out |-> x, draw |-> draw]
  ELSE LET a == DecoderLayerArgs(enc_out, x, x_mask, target_mask)
           l == DecoderLayerLocals(c, a[1], a[2], a[3], a[4], lyr, draw)
       IN DecoderLayers(c, enc_out, l.out, x_mask, target_mask, lyr + 1, draw + l.drawn)

\* self.out = nn.Sequential(nn.Linear(embedding_dim, target_size))
Project(c, decoder_out) ==
  Linear(decoder_out, c.embedding_dim, c.target_size, "out", "0", 0)

\* Transformer.forward as a function of its arguments and of the generator,
\* which has drawn draw masks when the call starts.
TransformerForward(c, x, x_mask, target, target_mask, draw) ==
  LET enc == EncoderLayers(c, EmbedAndEncode(c, x, c.input_size, "src"), x_mask, 0, draw)
      dec == DecoderLayers(c, enc.out, EmbedAndEncode(c, target, c.target_size, "tgt"),
                           x_mask, target_mask, 0, enc.draw)
  IN Project(c, dec.out)

(***************************************************************************)
(* State machine 1: construction.                                          *)
(***************************************************************************)
NoObject == [ok |-> FALSE, built |-> FALSE]

CtorIdle == mha = NoObject /\ model = NoObject

\* MultiHeadAttention(head, embedding_dim, dropout_rate)
NewMultiHeadAttention ==
  /\ ~mha.built
  /\ \E head \in -1..MaxHeadArg, embedding_dim \in -1..MaxDim,
        dropout_rate \in CtorDropoutRates :
       /\ mha' = [built |-> TRUE]
                 @@ MultiHeadAttentionInit(head, embedding_dim, dropout_rate)
       /\ UNCHANGED <<model, att, att_pc, cfg, inp, pc, layer, embedding_out, out,
                      encoder_out, logits, rng, calls>>

\* Transformer(input_size, target_size, max_len, head, embedding_dim, dropout_rate, N)
NewTransformer ==
  /\ ~model.built
  /\ \E max_len \in -1..MaxCtorLen, head \in -1..MaxHeadArg,
        embedding_dim \in -1..MaxDim, dropout_rate \in CtorDropoutRates,
        N \in -1..MaxCtorN :
       /\ model' = [built |-> TRUE]
                   @@ TransformerInit(Cardinality(Vocab), Cardinality(Vocab),
                                      max_len, head, embedding_dim, dropout_rate, N)
       /\ UNCHANGED <<mha, att, att_pc, cfg, inp, pc, layer, embedding_out, out,
                      encoder_out, logits, rng, calls>>

(***************************************************************************)
(* State machine 2: one call of MultiHeadAttention.forward, or one call of *)
(* ScaledDotProductAttention.forward by a caller of its own.  att.attention *)
(* is the ScaledDotProductAttention module; query_out, key_out and         *)
(* value_out are the arguments of its forward.                             *)
(***************************************************************************)
AttIdle == att = [m |-> NoObject] /\ att_pc = "idle"

\* A caller-given tensor of shape (batch, len, dim).
Input(name, batch, len, dim) ==
  Mk(<<batch, len, dim>>,
     [n \in 1..(batch * len * dim) |->
        SetToBag({<<"in", name, "", (n - 1) \div dim, (n - 1) % dim>>})])

\* The masks a caller may give: none, a padding mask (batch, 1, len), or a
\* target mask (batch, len, len), with any contents.
Masks(batch, len) ==
  {None}
  \cup {Mk(<<batch, 1, len>>, d) : d \in [1..(batch * len) -> {0, 1}]}
  \cup IF batch * len * len > MaxMaskBits THEN {}
       ELSE {Mk(<<batch, len, len>>, d) : d \in [1..(batch * len * len) -> {0, 1}]}

\* A caller-given 4-dimensional tensor of elements of the given kind ("in",
\* "huge"), and one that holds the same literal everywhere.
Input4(kind, name, shape) ==
  Mk(shape, [n \in 1..Numel(shape) |->
               SetToBag({<<kind, name, "", (n - 1) \div shape[4], (n - 1) % shape[4]>>})])
Literal4(c, shape) == Mk(shape, [n \in 1..Numel(shape) |-> c])

\* Direct calls: the (batch, head) sizes of query and of key.  Equal sizes,
\* sizes torch.matmul broadcasts, and sizes it does not.
BroadcastPairs ==
  {<<<<1, 1>>, <<1, 1>>>>, <<<<2, 2>>, <<2, 2>>>>, <<<<2, 2>>, <<1, 1>>>>,
   <<<<1, 2>>, <<2, 1>>>>, <<<<2, 1>>, <<3, 1>>>>}

\* Direct calls: the size of the last axis of query, key and value.
LastDims == {1, 2}

\* Direct calls: what query and key hold.  "in": elements of ordinary size;
\* "huge": elements of any size; "literal" (for a last axis of 1): query holds
\* -1e10 and key holds 1.0 everywhere.
InputKinds(d) == IF d = 1 THEN {"in", "huge", "literal"} ELSE {"in", "huge"}

\* Direct calls: the masks given for scores of shape (batch, head, len_q,
\* len_k).  A mask of the batch size of the scores, or of 2 batch elements,
\* over the keys (a padding mask) or over 2 query positions and the keys,
\* with any contents.
DirectMasks(batch, len_k) ==
  {None}
  \cup UNION {{Mk(sh, m) : m \in [1..Numel(sh) -> {0, 1}]} :
               sh \in {sh \in {<<batch, 1, len_k>>, <<2, 1, len_k>>, <<batch, 2, len_k>>} :
                         Numel(sh) <= MaxDirectMaskBits}}

\* A direct call ScaledDotProductAttention(dk, dropout_rate)(query, key,
\* value, mask): value is shaped like key.
SdpaInit ==
  /\ att_pc = "scores"
  /\ \E bh \in BroadcastPairs, d \in LastDims, len_q \in 1..MaxAttnLen,
        len_k \in 1..MaxAttnLen, dropout_rate \in DropoutRates :
       \E dk \in {0, d}, kind \in InputKinds(d) :
         LET qs == <<bh[1][1], bh[1][2], len_q, d>>
             ks == <<bh[2][1], bh[2][2], len_k, d>>
         IN \E mask \in DirectMasks(BroadcastDim(qs[1], ks[1]), len_k) :
              att = [m |-> NoObject,
                     attention |-> ScaledDotProductAttentionInit(dk, dropout_rate),
                     direct |-> TRUE,
                     query |-> None, key |-> None, value |-> None,
                     mask |-> mask,
                     query_out |-> IF kind = "literal" THEN Literal4(MaskFill, qs)
                                   ELSE Input4(kind, "query", qs),
                     key_out |-> IF kind = "literal" THEN Literal4(SetToBag({One}), ks)
                                 ELSE Input4(kind, "key", ks),
                     value_out |-> Input4("in", "value", ks),
                     scores |-> None, filled |-> None, weights |-> None,
                     dropped |-> None,
                     heads |-> None, merged |-> None, out |-> None]

AttInit ==
  /\ att_pc = "dense_qkv"
  /\ \E hd \in HeadDims, len \in 1..MaxAttnLen, batch \in 1..MaxBatch,
        dropout_rate \in DropoutRates :
       \E mask \in Masks(batch, len) :
         att = [m |-> MultiHeadAttentionInit(hd[1], hd[2], dropout_rate),
                attention |-> ScaledDotProductAttentionInit(
                                MultiHeadAttentionInit(hd[1], hd[2], dropout_rate).dk,
                                dropout_rate),
                direct |-> FALSE,
                query |-> Input("query", batch, len, hd[2]),
                key |-> Input("key", batch, len, hd[2]),
                value |-> Input("value", batch, len, hd[2]),
                mask |-> mask,
                query_out |-> None, key_out |-> None, value_out |-> None,
                scores |-> None, filled |-> None, weights |-> None,
                dropped |-> None,
                heads |-> None, merged |-> None, out |-> None]

AttUnchanged ==
  UNCHANGED <<mha, model, cfg, inp, pc, layer, embedding_out, out, encoder_out,
              logits, calls>>

\* The call raises: the locals are gone.
AttRaise == att' = [m |-> att.m] /\ att_pc' = "error"

\* query_out, key_out, value_out: dense, view, transpose (lines 74-80).
AttSplitHeads ==
  /\ att_pc = "dense_qkv"
  /\ LET q == SplitHeads(att.m, att.query, att.query, "mha", "dense_query", 0)
         k == SplitHeads(att.m, att.key, att.query, "mha", "dense_key", 0)
         v == SplitHeads(att.m, att.value, att.query, "mha", "dense_value", 0)
     IN IF q.ok /\ k.ok /\ v.ok
        THEN /\ att' = [att EXCEPT !.query_out = q, !.key_out = k, !.value_out = v]
             /\ att_pc' = "scores"
        ELSE AttRaise
  /\ AttUnchanged /\ UNCHANGED rng

\* ScaledDotProductAttention.forward, lines 41-42.
AttScores ==
  /\ att_pc = "scores"
  /\ LET r == ScaledScores(att.query_out, att.key_out, att.attention.dk)
     IN IF r.ok THEN att' = [att EXCEPT !.scores = r] /\ att_pc' = "mask"
        ELSE AttRaise
  /\ AttUnchanged /\ UNCHANGED rng

\* ScaledDotProductAttention.forward, lines 44-46.
AttMask ==
  /\ att_pc = "mask"
  /\ LET r == MaskedFill(att.scores, att.mask)
     IN IF r.ok THEN att' = [att EXCEPT !.filled = r] /\ att_pc' = "softmax"
        ELSE AttRaise
  /\ AttUnchanged /\ UNCHANGED rng

\* ScaledDotProductAttention.forward, line 47.
AttSoftmax ==
  /\ att_pc = "softmax"
  /\ att' = [att EXCEPT !.weights = Softmax(att.filled)]
  /\ att_pc' = "dropout"
  /\ AttUnchanged /\ UNCHANGED rng

\* ScaledDotProductAttention.forward, lines 49-50: the mask is drawn here.
AttDropout ==
  /\ att_pc = "dropout"
  /\ att' = [att EXCEPT !.dropped = AttentionDropout(att.weights,
                                                     att.attention.dropout_rate,
                                                     att.attention.training, rng, "mha")]
  /\ rng' = IF Active(att.attention.dropout_rate, att.attention.training)
            THEN rng + 1 ELSE rng
  /\ att_pc' = "matmul"
  /\ AttUnchanged

\* ScaledDotProductAttention.forward, lines 51-53.
AttWeightedSum ==
  /\ att_pc = "matmul"
  /\ LET r == WeightedSum(att.dropped, att.value_out)
     IN IF r.ok
        THEN /\ att' = [att EXCEPT !.heads = r]
             /\ att_pc' = IF att.direct THEN "returned" ELSE "view"
        ELSE AttRaise
  /\ AttUnchanged /\ UNCHANGED rng

\* MultiHeadAttention.forward, line 82: the .view of the attention output.
AttMergeHeads ==
  /\ att_pc = "view"
  /\ LET r == MergeHeads(att.m, att.heads, att.query)
     IN IF r.ok THEN att' = [att EXCEPT !.merged = r] /\ att_pc' = "dense"
        ELSE AttRaise
  /\ AttUnchanged /\ UNCHANGED rng

\* MultiHeadAttention.forward, lines 84-85.
AttDense ==
  /\ att_pc = "dense"
  /\ att' = [att EXCEPT !.out = Linear(att.merged, att.m.embedding_dim,
                                       att.m.embedding_dim, "mha", "dense", 0)]
  /\ att_pc' = "done"
  /\ AttUnchanged /\ UNCHANGED rng

(***************************************************************************)
(* State machine 3: one call of Transformer.forward, as main() makes it.   *)
(***************************************************************************)
FwdIdle ==
  /\ cfg = NoObject /\ inp = <<>> /\ pc = "idle" /\ layer = 0
  /\ embedding_out = None /\ out = None /\ encoder_out = None /\ logits = None
  /\ calls = <<>>

\* Token ids of shape (1, len).
Ids(len) == {Mk(<<1, len>>, d) : d \in [1..len -> Vocab]}

\* The padding of ids, if any, is at its end (as in main()'s [2, 2, 4, 1]).
PaddedAtEnd(ids) ==
  \A n \in 1..(Len(ids.data) - 1) : ids.data[n] = PadId => ids.data[n + 1] = PadId

\* src_mask = (temp != 1).unsqueeze(-2): shape (batch, 1, len).
PaddingMask(ids) ==
  Mk(<<ids.shape[1], 1, ids.shape[2]>>,
     [n \in 1..Len(ids.data) |-> IF ids.data[n] # PadId THEN 1 ELSE 0])

\* No token of ids is the padding id.
Unpadded(ids) == \A n \in 1..Len(ids.data) : ids.data[n] # PadId

\* mask = np.triu(np.ones((batch, len, len)), k=1) == 0: 1 on and below the diagonal.
CausalMask(batch, len) ==
  LET s == <<batch, len, len>>
  IN Mk(s, [n \in 1..Numel(s) |-> IF Ix3(s, n)[3] <= Ix3(s, n)[2] THEN 1 ELSE 0])

\* The source is any sequence, padded at its end or not; the target is not padded (the
\* target mask of main() is causal only, so padding cannot change a run).
FwdInit ==
  /\ \E hd \in HeadDims, max_len \in 1..MaxLen, N \in 1..MaxLayers,
        dropout_rate \in DropoutRates :
       cfg = TransformerInit(Cardinality(Vocab), Cardinality(Vocab), max_len,
                             hd[1], hd[2], dropout_rate, N)
  /\ \E ls \in 1..MaxSeq, lt \in 1..MaxSeq :
       \E x \in {u \in Ids(ls) : PaddedAtEnd(u)}, target \in {u \in Ids(lt) : Unpadded(u)} :
         inp = [x |-> x, x_mask |-> PaddingMask(x), target |-> target,
                target_mask |-> CausalMask(1, lt)]
  /\ pc = "encoder.embedding" /\ layer = 0
  /\ embedding_out = None /\ out = None /\ encoder_out = None /\ logits = None
  /\ calls = <<>>

FwdUnchanged == UNCHANGED <<mha, model, att, att_pc, cfg, inp>>

\* An exception leaves Transformer.forward: no local survives, nothing is returned.
Raise ==
  /\ pc' = "error" /\ layer' = 0
  /\ embedding_out' = None /\ out' = None /\ encoder_out' = None /\ logits' = None

\* Encoder.forward, lines 176-177.
EncoderEmbed ==
  /\ pc = "encoder.embedding"
  /\ LET emb == Embedding(inp.x, cfg.input_size, cfg.embedding_dim, "src")
         pos == PositionalEncodingForward(
                  PositionalEncodingInit(cfg.max_len, cfg.embedding_dim), emb)
         r == EmbedAndEncode(cfg, inp.x, cfg.input_size, "src")
     IN /\ calls' = Append(calls, [fn |-> "encoder.positionalEncoding", index |-> 0,
                                   args |-> <<emb>>, rng |-> rng,
                                   locals |-> <<>>, ret |-> pos])
        /\ IF r.ok
           THEN /\ embedding_out' = emb /\ out' = r
                /\ pc' = "encoder.layers" /\ layer' = 0
                /\ UNCHANGED <<encoder_out, logits>>
           ELSE Raise
  /\ FwdUnchanged /\ UNCHANGED rng

\* Encoder.forward, lines 180-181: one iteration of the loop.  The generator
\* keeps the masks it has drawn, whether the call returns or raises.
EncoderLayerCall ==
  /\ pc = "encoder.layers" /\ layer < cfg.N
  /\ LET a == EncoderLayerArgs(out, inp.x_mask)
     IN \E l \in {EncoderLayerLocals(cfg, a[1], a[2], layer, rng)} :
        /\ calls' = Append(calls, [fn |-> "encoder", index |-> layer, args |-> a,
                                   rng |-> rng, locals |-> <<>>, ret |-> l.out])
        /\ rng' = rng + l.drawn
        /\ IF l.out.ok
           THEN /\ out' = l.out /\ layer' = layer + 1
                /\ UNCHANGED <<pc, embedding_out, encoder_out, logits>>
           ELSE Raise
  /\ FwdUnchanged

\* Encoder.forward, line 182, and Transformer.forward, line 248.
EncoderReturn ==
  /\ pc = "encoder.layers" /\ layer = cfg.N
  /\ encoder_out' = out
  /\ pc' = "decoder.embedding" /\ layer' = 0
  /\ embedding_out' = None /\ out' = None
  /\ UNCHANGED <<logits, calls>>
  /\ FwdUnchanged /\ UNCHANGED rng

\* Decoder.forward, lines 229-230.
DecoderEmbed ==
  /\ pc = "decoder.embedding"
  /\ LET emb == Embedding(inp.target, cfg.target_size, cfg.embedding_dim, "tgt")
         pos == PositionalEncodingForward(
                  PositionalEncodingInit(cfg.max_len, cfg.embedding_dim), emb)
         r == EmbedAndEncode(cfg, inp.target, cfg.target_size, "tgt")
     IN /\ calls' = Append(calls, [fn |-> "decoder.positionalEncoding", index |-> 0,
                                   args |-> <<emb>>, rng |-> rng,
                                   locals |-> <<>>, ret |-> pos])
        /\ IF r.ok
           THEN /\ embedding_out' = emb /\ out' = r
                /\ pc' = "decoder.layers" /\ layer' = 0
                /\ UNCHANGED <<encoder_out, logits>>
           ELSE Raise
  /\ FwdUnchanged /\ UNCHANGED rng

\* Decoder.forward, lines 232-233: one iteration of the loop.
DecoderLayerCall ==
  /\ pc = "decoder.layers" /\ layer < cfg.N
  /\ LET a == DecoderLayerArgs(encoder_out, out, inp.x_mask, inp.target_mask)
     IN \E l \in {DecoderLayerLocals(cfg, a[1], a[2], a[3], a[4], layer, rng)} :
        /\ calls' = Append(calls, [fn |-> "decoder", index |-> layer, args |-> a,
                                   rng |-> rng, locals |-> l, ret |-> l.out])
        /\ rng' = rng + l.drawn
        /\ IF l.out.ok
           THEN /\ out' = l.out /\ layer' = layer + 1
                /\ UNCHANGED <<pc, embedding_out, encoder_out, logits>>
           ELSE Raise
  /\ FwdUnchanged

\* Decoder.forward, line 234, and Transformer.forward, lines 249-252.
DecoderReturn ==
  /\ pc = "decoder.layers" /\ layer = cfg.N
  /\ logits' = Project(cfg, out)
  /\ pc' = "done"
  /\ UNCHANGED <<layer, embedding_out, out, encoder_out, calls>>
  /\ FwdUnchanged /\ UNCHANGED rng

(***************************************************************************)
(* Specifications.                                                         *)
(***************************************************************************)
\* The generator when the call starts: other calls may have drawn masks.
RngInit == rng \in 0..MaxRng

Init == CtorIdle /\ AttIdle /\ FwdInit /\ RngInit

Next ==
  \/ EncoderEmbed
  \/ EncoderLayerCall
  \/ EncoderReturn
  \/ DecoderEmbed
  \/ DecoderLayerCall
  \/ DecoderReturn

Spec == Init /\ [][Next]_vars

InitAttn == CtorIdle /\ (AttInit \/ SdpaInit) /\ FwdIdle /\ RngInit

NextAttn ==
  \/ AttSplitHeads
  \/ AttScores
  \/ AttMask
  \/ AttSoftmax
  \/ AttDropout
  \/ AttWeightedSum
  \/ AttMergeHeads
  \/ AttDense

SpecAttn == InitAttn /\ [][NextAttn]_vars

InitCtor == CtorIdle /\ AttIdle /\ FwdIdle /\ RngInit

NextCtor == NewMultiHeadAttention \/ NewTransformer

SpecInit == InitCtor /\ [][NextCtor]_vars

(***************************************************************************)
(* Properties.                                                             *)
(***************************************************************************)
Positive(n) == n > 0

\* C1 (as stated): MultiHeadAttention's constructor (given a dropout rate in
\* [0, 1]) fails whenever embedding_dim % head # 0 (both positive), and
\* succeeds with dk = embedding_dim / head whenever embedding_dim % head = 0.
C1_DivisibilityValidated ==
  (mha.built /\ Positive(mha.head) /\ Positive(mha.embedding_dim)
   /\ DropoutInit(mha.dropout_rate)) =>
    IF mha.embedding_dim % mha.head # 0
    THEN ~mha.ok
    ELSE mha.ok /\ mha.dk * mha.head = mha.embedding_dim

\* C7 (as stated, for N and max_len): a Transformer instance whose other
\* configuration values are positive (and whose dropout rate is in [0, 1]) has
\* a positive N and a positive max_len.
C7_NonPositiveRejected ==
  /\ (model.built /\ model.ok /\ DropoutInit(model.dropout_rate)
      /\ Positive(model.embedding_dim)
      /\ Positive(model.head) /\ Positive(model.max_len)) => Positive(model.N)
  /\ (model.built /\ model.ok /\ DropoutInit(model.dropout_rate)
      /\ Positive(model.embedding_dim)
      /\ Positive(model.head) /\ Positive(model.N)) => Positive(model.max_len)

\* The calls of a PositionalEncoding made so far.
PositionalCalls ==
  SelectSeq(calls, LAMBDA e : e.fn \in {"encoder.positionalEncoding",
                                        "decoder.positionalEncoding"})

\* x + PE[0:seq_len], broadcast over the batch axis.
AddFirstRows(x, table) ==
  Mk(x.shape, [n \in 1..Numel(x.shape) |->
                 x.data[n] (+) At2(table, Ix3(x.shape, n)[2], Ix3(x.shape, n)[3])])

\* C2 (as stated): a PositionalEncoding call on an input of shape
\* (batch, seq_len, embedding_dim) with 1 <= seq_len <= max_len succeeds and
\* returns input + PE[0:seq_len], of the input's shape.
C2_PositionalCallAddsFirstRows ==
  \A k \in 1..Len(PositionalCalls) :
    LET x == PositionalCalls[k].args[1]
        ret == PositionalCalls[k].ret
    IN (x.shape[2] >= 1 /\ x.shape[2] <= cfg.max_len) =>
         /\ ret.ok
         /\ ret = AddFirstRows(x, PositionalEncodingInit(cfg.max_len, cfg.embedding_dim))

\* embedding(ids) + PE[0:seq_len]: the lookup once, the positional signal once.
EmbeddedOnce(ids, input_size, stream) ==
  AddFirstRows(Embedding(ids, input_size, cfg.embedding_dim, stream),
               PositionalEncodingInit(cfg.max_len, cfg.embedding_dim))

\* C4 (as stated): the tensor fed to the first layer of the encoder (decoder)
\* stack is embedding(ids) + PE[0:seq_len].
C4_FirstLayerInputEmbeddedOnce ==
  \A k \in 1..Len(calls) :
    /\ (calls[k].fn = "encoder" /\ calls[k].index = 0) =>
         calls[k].args[1] = EmbeddedOnce(inp.x, cfg.input_size, "src")
    /\ (calls[k].fn = "decoder" /\ calls[k].index = 0) =>
         calls[k].args[2] = EmbeddedOnce(inp.target, cfg.target_size, "tgt")

\* C6 (as stated): with a source or a target longer than max_len the forward
\* pass does not return: it ends in an error and there are no logits.
C6_TooLongRaises ==
  (inp.x.shape[2] > cfg.max_len \/ inp.target.shape[2] > cfg.max_len) =>
    pc # "done" /\ IsNone(logits)

\* C3 (as stated): in every DecoderLayer call, stage 1 attends with
\* query = key = value = target under the target mask, and stage 2 with
\* query = the stage-1 output, key = value = the encoder output, under the
\* source padding mask.
C3_DecoderAttentionArguments ==
  \A k \in 1..Len(calls) :
    calls[k].fn = "decoder" =>
      LET enc_out == calls[k].args[1]
          target == calls[k].args[2]
          l == calls[k].locals
      IN /\ l.attention1 = <<target, target, target, inp.target_mask>>
         /\ l.out1.ok => l.attention2 = <<l.out1, enc_out, enc_out, inp.x_mask>>

\* The targets that agree with target on the positions 0..t.
AgreeUpTo(target, t) ==
  {u \in Ids(target.shape[2]) : \A p \in 0..t : At2(u, 0, p) = At2(target, 0, p)}

\* C10 (as stated): under the causal target mask, the logits at target
\* position t are the same in any two runs whose targets agree on 0..t
\* (source and target of max_len tokens; the other run starts from the same
\* state of the random generator).
C10_CausalNonInterference ==
  (pc = "done" /\ inp.x.shape[2] = cfg.max_len /\ inp.target.shape[2] = cfg.max_len) =>
    \A t \in 0..(inp.target.shape[2] - 1) :
      \A u \in AgreeUpTo(inp.target, t) :
        LET other == TransformerForward(cfg, inp.x, inp.x_mask, u, inp.target_mask,
                                        calls[1].rng)
        IN other.ok =>
             \A v \in 0..(cfg.target_size - 1) : At3(other, 0, t, v) = At3(logits, 0, t, v)

\* C5 (as stated): element (b, p, h * dk + j) of the tensor passed to the final
\* linear projection is the attention output of head h at position p, offset j.
C5_HeadsConcatenatedPerPosition ==
  att_pc \in {"dense", "done"} =>
    \A b \in 0..(att.query.shape[1] - 1), p \in 0..(att.query.shape[2] - 1),
       h \in 0..(att.m.head - 1), j \in 0..(att.m.dk - 1) :
      At3(att.merged, b, p, h * att.m.dk + j) = At4(att.heads, b, h, p, j)

\* The mask entry that governs query position q and key position k of batch
\* element b: a (batch, 1, len) mask is the same for every query position,
\* and a mask axis of size 1 is repeated.
MaskAt(mask, b, q, k) ==
  At3(mask, BroadcastIdx(mask.shape[1], b), BroadcastIdx(mask.shape[2], q),
            BroadcastIdx(mask.shape[3], k))

\* The scaled dot product for batch element b, head h, query position q and
\* key position k: the scores are repeated where the mask is larger.
ScoreAt(b, h, q, k) == AtBroadcast4(att.scores, <<b, h, q, k>>)

\* The positions of the scores: batch element, head, query and key position.
ScorePositions ==
  (0..(att.filled.shape[1] - 1)) \X (0..(att.filled.shape[2] - 1))
  \X (0..(att.filled.shape[3] - 1)) \X (0..(att.filled.shape[4] - 1))

\* The masking step of a call with a mask has run.
Masked ==
  /\ att_pc \in {"softmax", "dropout", "matmul", "view", "dense", "done", "returned"}
  /\ ~IsNone(att.mask)

\* C8 (as stated): after the masking step, for every batch element, head,
\* query position q and key position k, the score is the large negative
\* constant if and only if the mask is 0 at (q, k), and is the scaled dot
\* product where the mask is not 0; the mask entry does not depend on the
\* head.
C8_MaskedScoresIff ==
  Masked =>
    \A i \in ScorePositions :
      /\ At4(att.filled, i[1], i[2], i[3], i[4]) = MaskFill
           <=> MaskAt(att.mask, i[1], i[3], i[4]) = 0
      /\ MaskAt(att.mask, i[1], i[3], i[4]) # 0 =>
           At4(att.filled, i[1], i[2], i[3], i[4]) = ScoreAt(i[1], i[2], i[3], i[4])

\* C8 (amended): after the masking step, for every batch element, head, query
\* position q and key position k, the score is the large negative constant
\* where the mask is 0 at (q, k), and is the scaled dot product, whatever its
\* value, where the mask is not 0; so the score is the constant if and only
\* if the mask is 0 or the scaled dot product is itself the constant.  The
\* mask entry does not depend on the head.
C8_MaskedScores ==
  Masked =>
    \A i \in ScorePositions :
      /\ MaskAt(att.mask, i[1], i[3], i[4]) = 0 =>
           At4(att.filled, i[1], i[2], i[3], i[4]) = MaskFill
      /\ MaskAt(att.mask, i[1], i[3], i[4]) # 0 =>
           At4(att.filled, i[1], i[2], i[3], i[4]) = ScoreAt(i[1], i[2], i[3], i[4])
      /\ At4(att.filled, i[1], i[2], i[3], i[4]) = MaskFill
           <=> \/ MaskAt(att.mask, i[1], i[3], i[4]) = 0
               \/ ScoreAt(i[1], i[2], i[3], i[4]) = MaskFill

\* A masking step has run in a direct call whose query has two batch
\* elements and two heads and whose key, of one batch element and one head,
\* is broadcast, under a padding mask that hides the first key of the second
\* batch element and shows the others, in a module with dropout_rate = 0.1.
C8_Witness ==
  /\ att_pc = "softmax" /\ att.direct
  /\ att.attention.dropout_rate = 10 /\ att.attention.training
  /\ att.query_out.shape = <<2, 2, 2, 2>> /\ att.key_out.shape = <<1, 1, 2, 2>>
  /\ att.mask.shape = <<2, 1, 2>> /\ att.mask.data = <<1, 1, 0, 1>>
  /\ att.filled.shape = <<2, 2, 2, 2>>
  /\ At4(att.filled, 1, 1, 1, 0) = MaskFill
  /\ At4(att.filled, 1, 1, 0, 1) = At4(att.scores, 1, 1, 0, 1)
  /\ At4(att.filled, 1, 1, 0, 1) # MaskFill

\* The layer calls of the encoder stack and of the decoder stack, in order.
EncoderCalls == SelectSeq(calls, LAMBDA e : e.fn = "encoder")
DecoderCalls == SelectSeq(calls, LAMBDA e : e.fn = "decoder")

\* t is ids embedded: element (b, p, f) is computed from entry [ids[b, p], f]
\* of the embedding of the stream and from the entries of the positional
\* table for position p and feature f, and from nothing else; where ids and
\* the table differ in length, the one of length 1 is repeated.
IsEmbedded(t, ids, stream) ==
  /\ t.ok /\ Len(t.shape) = 3
  /\ t.shape[1] = ids.shape[1] /\ t.shape[3] = cfg.embedding_dim
  /\ t.shape[2] = BroadcastDim(ids.shape[2], cfg.max_len)
  /\ \A n \in 1..Numel(t.shape) :
       LET i == Ix3(t.shape, n)
           e == <<"emb", stream, "", At2(ids, i[1], BroadcastIdx(ids.shape[2], i[2])), i[3]>>
       IN /\ e \in Supp(t.data[n])
          /\ \A a \in Supp(t.data[n]) :
               \/ a = e
               \/ /\ a[1] = "pe" /\ a[4] = BroadcastIdx(cfg.max_len, i[2])
                  /\ a[5] = i[3] \div 2

\* The logged call of the PositionalEncoding of a stack.
PositionalCall(fn) == SelectSeq(calls, LAMBDA e : e.fn = fn)[1]

\* C9: in one forward call the encoder and the decoder apply their layers in
\* index order 0, 1, .., N-1, each once; layer i's input is layer i-1's output
\* and layer 0's input is the embedded input (the ids embedded, which is the
\* embedding plus what the positional encoding returned for it); every
\* encoder layer gets the same
\* source mask; every decoder layer gets the output of the encoder's last
\* layer and the same two masks; nothing of the decoder runs before the
\* encoder's last layer has returned.
C9_LayerOrdering ==
  LET ec == EncoderCalls
      dc == DecoderCalls
  IN /\ Len(ec) <= cfg.N /\ Len(dc) <= cfg.N
     /\ pc = "done" => Len(ec) = cfg.N /\ Len(dc) = cfg.N
     /\ \A i \in 1..Len(ec) :
          /\ ec[i].index = i - 1
          /\ i = 1 =>
               /\ IsEmbedded(ec[1].args[1], inp.x, "src")
               /\ ec[1].args[1] =
                    Add3(PositionalCall("encoder.positionalEncoding").args[1],
                         PositionalCall("encoder.positionalEncoding").ret)
          /\ i > 1 => ec[i].args[1] = ec[i - 1].ret
          /\ ec[i].args[2] = inp.x_mask
     /\ \A i \in 1..Len(dc) :
          /\ dc[i].index = i - 1
          /\ dc[i].args[1] = ec[cfg.N].ret
          /\ i = 1 =>
               /\ IsEmbedded(dc[1].args[2], inp.target, "tgt")
               /\ dc[1].args[2] =
                    Add3(PositionalCall("decoder.positionalEncoding").args[1],
                         PositionalCall("decoder.positionalEncoding").ret)
          /\ i > 1 => dc[i].args[2] = dc[i - 1].ret
          /\ dc[i].args[3] = inp.x_mask
          /\ dc[i].args[4] = inp.target_mask
     /\ \A k \in 1..Len(calls) :
          calls[k].fn \in {"decoder", "decoder.positionalEncoding"} =>
            /\ Cardinality({j \in 1..(k - 1) : calls[j].fn = "encoder"}) = cfg.N
            /\ \A j \in (k + 1)..Len(calls) :
                 calls[j].fn \notin {"encoder", "encoder.positionalEncoding"}

\* A forward call of a two-layer model in training mode with
\* dropout_rate = 0.1 on two-token sequences has returned, every layer having
\* drawn its masks (two per encoder layer, three per decoder layer).
C9_Witness ==
  /\ pc = "done" /\ cfg.N = 2 /\ cfg.dropout_rate = 10 /\ cfg.training
  /\ inp.x.shape[2] = 2 /\ inp.target.shape[2] = 2
  /\ rng = calls[1].rng + 10
  /\ \E a \in Supp(At3(logits, 0, 0, 0)) : a[1] = "mask" /\ a[4] = rng - 1
  /\ Len(EncoderCalls) = 2 /\ Len(DecoderCalls) = 2
  /\ logits.ok

=============================================================================
